---- MODULE Spec2Model ----
(***************************************************************************)
(* State-machine model of libbitcoin's protocol orchestrator               *)
(* (src/src/network/protocol.cpp): twin-path start-up, the DNS seeder,     *)
(* the outbound connection maintainer, the inbound listener, the channel   *)
(* fan-out and stop.  Every handler bound through strand_.wrap / post runs  *)
(* inside one strand, so each handler invocation is one atomic action; a   *)
(* completion handler that is itself strand-wrapped and invoked from       *)
(* inside the strand is dispatched inline and is part of the same action.  *)
(* The four DNS seeds run the same code and differ only in a host name no   *)
(* handler reads, so the seeder's callbacks are kept as a bag: how many    *)
(* seeds are in each callback state.                                       *)
(***************************************************************************)
EXTENDS Integers, Sequences, FiniteSets, Bags, TLC

\* ---------------------------------------------------------------- constants

\* max_outbound_(8) in the constructor's initialiser list.
max_outbound == 8

\* dns_seeds.size(): four host names.
NumSeeds == 4

\* The value of a default-constructed std::error_code (success).
no_error == 0

\* The start barrier: both initialisation paths counted.
both_paths == 2

\* What a fetch_address result carries when it reports an error: no record.
no_address == 0

\* ------------------------------------------------------------------- bounds

\* Number of distinct non-zero error codes the collaborators may report.
NumErr == 2

\* Number of distinct (ip, port) pairs the host store may return.
NumAddrs == 2

\* Total number of fetch_address calls the model lets the core issue.
MaxFetch == 10

\* Total number of stop notifications the channels deliver.
MaxStops == 1

\* Number of pending posted try_connect calls the strand queue may hold.
MaxPosted == 1

\* Number of subscribe_channel calls made by the application.
MaxSubs == 2

\* Number of stop notifications delivered again for a channel that already
\* delivered one.
MaxRepeats == 1

\* Number of calls of stop made by the application.
MaxStopCalls == 1

\* hosts_filename_("hosts") in the constructor's initialiser list.
hosts_filename_ == "hosts"

\* The callback state of one seed: its connect is "pending", "failed" or
\* "ok"; once connected, its get_address send and its address subscription
\* are each "pending", "failed" or "ok" ("none" before the connect succeeds).
SeedStates ==
    [conn : {"pending", "failed", "ok"},
     send : {"none", "pending", "failed", "ok"},
     addr : {"none", "pending", "failed", "ok"}]
ErrCodes == 1..NumErr
Results == {no_error} \cup ErrCodes
Addrs == 1..NumAddrs
Handlers == 1..MaxSubs

VARIABLES
    \* --- orchestrator start-up
    hosts_,             \* the host store: the set of known (ip, port) pairs
    boot_pc,            \* bootstrap path: "idle","load","count","seeding","done"
    hs_pc,              \* handshake-service path: "idle","pending","done"
    count_paths,        \* *count_paths, the shared atomic counter
    start_completions,  \* error codes start's handle_complete was invoked with
    run_calls,          \* number of calls of run()
    bootstrap_results,  \* error codes handle_bootstrap was invoked with
    handshake_results,  \* error codes handle_start_handshake_service got
    fetch_count_results,\* the (ec, hosts_count) pairs if_0_seed was invoked with
    \* --- seeder (protocol::seeds)
    load_seeds_,        \* TRUE once the seeds object exists and was started
    seed_paths,         \* bag of the seeds' callback states (see SeedStates)
    ended_paths_,
    finished_,
    seeder_completions, \* error codes the seeder's handle_complete_ got
    last_ec,            \* error code of the latest error_case call
    \* --- connection maintainer / listener
    connections_,       \* sequence of [address, node]
    accepted_channels_, \* sequence of nodes
    fetch_pending,      \* fetch_address calls awaiting their result
    fetch_issued,       \* fetch_address calls issued so far
    full_returns,       \* times try_connect returned at its size test
    last_fetched,       \* address of the latest fetch_address result
    connect_pending,    \* Addrs -> number of connects awaiting their result
    try_posted,         \* posted try_connect calls not yet run
    listen_state,       \* "none","listening","failed","accepting","closed"
    next_node,          \* identity given to the next outbound channel
    next_accepted,      \* the next inbound channel is node -next_accepted
    stop_subscribed,    \* node -> number of subscribe_stop registrations
    stop_fired,         \* nodes whose stop notification was delivered
    stop_repeats,       \* notifications delivered for a node in stop_fired
    \* --- channel fan-out
    subscribers,        \* channel_subscribe_: queue of one-shot handlers
    next_handler,       \* identity of the next subscribe_channel handler
    delivered,          \* handler -> sequence of channels it received
    \* --- shutdown
    stop_calls,         \* number of calls of stop()
    save_requests,      \* file names hosts_->save was called with
    save_pending,       \* hosts_->save calls awaiting their result
    save_results,       \* error codes hosts_->save completed with
    stop_completions    \* error codes stop's handle_complete was invoked with

startv == <<boot_pc, hs_pc, count_paths, start_completions, run_calls,
            bootstrap_results, handshake_results, fetch_count_results>>
seedv == <<load_seeds_, seed_paths, ended_paths_,
           finished_, seeder_completions, last_ec>>
runv == <<connections_, accepted_channels_, fetch_pending, fetch_issued,
          full_returns, last_fetched, connect_pending, try_posted,
          listen_state, next_node, next_accepted, stop_subscribed,
          stop_fired, stop_repeats>>
fanv == <<subscribers, next_handler, delivered>>
stopv == <<stop_calls, save_requests, save_pending, save_results,
           stop_completions>>
vars == <<hosts_, startv, seedv, runv, fanv, stopv>>

\* What the two start completion handlers and run() may change.
barrierv == <<count_paths, start_completions, run_calls, fetch_pending,
              fetch_issued, full_returns, listen_state>>
\* What error_case may change besides the barrier.
seedendv == <<ended_paths_, finished_, seeder_completions, last_ec>>

\* ------------------------------------------------------------------- Init

Init ==
    /\ hosts_ \in SUBSET Addrs
    /\ boot_pc = "idle"
    /\ hs_pc = "idle"
    /\ count_paths = 0
    /\ start_completions = <<>>
    /\ run_calls = 0
    /\ bootstrap_results = <<>>
    /\ handshake_results = <<>>
    /\ fetch_count_results = <<>>
    /\ load_seeds_ = FALSE
    /\ seed_paths = EmptyBag
    /\ ended_paths_ = 0
    /\ finished_ = FALSE
    /\ seeder_completions = <<>>
    /\ last_ec = no_error
    /\ connections_ = <<>>
    /\ accepted_channels_ = <<>>
    /\ fetch_pending = 0
    /\ fetch_issued = 0
    /\ full_returns = 0
    /\ last_fetched = no_address
    /\ connect_pending = [a \in Addrs |-> 0]
    /\ try_posted = 0
    /\ listen_state = "none"
    /\ next_node = 1
    /\ next_accepted = 1
    /\ stop_subscribed = <<>>
    /\ stop_fired = {}
    /\ stop_repeats = 0
    /\ subscribers = <<>>
    /\ next_handler = 1
    /\ delivered = [h \in Handlers |-> <<>>]
    /\ stop_calls = 0
    /\ save_requests = <<>>
    /\ save_pending = 0
    /\ save_results = <<>>
    /\ stop_completions = <<>>

\* ------------------------------------------------------- connection maintainer

\* try_connect testing size() > max_outbound_ and looping while
\* i <= max_outbound_.
try_connect_fetches_inclusive(n) ==
    IF n > max_outbound THEN 0 ELSE max_outbound - n + 1

\* Number of fetch_address calls try_connect issues when connections_ has n
\* entries: none when n >= max_outbound_, else one per i in n..max_outbound_-1.
try_connect_fetches(n) ==
    IF n >= max_outbound THEN 0 ELSE max_outbound - n

\* protocol::try_connect, run with connections_.size() = n.
try_connect(n) ==
    /\ fetch_issued + try_connect_fetches(n) <= MaxFetch
    /\ fetch_pending' = fetch_pending + try_connect_fetches(n)
    /\ fetch_issued' = fetch_issued + try_connect_fetches(n)
    /\ full_returns' = IF n >= max_outbound
                       THEN full_returns + 1 ELSE full_returns

\* protocol::run: try_connect is dispatched from inside the strand, so it
\* runs at once; then listen(8333) is issued.
run ==
    /\ run_calls' = run_calls + 1
    /\ try_connect(Len(connections_))
    /\ listen_state' = "listening"

\* ------------------------------------------------------------ start barrier

\* handle_bootstrap without the return that ends its error branch: the failed
\* path is counted like a successful one.
handle_bootstrap_fallthrough(ec) ==
    /\ bootstrap_results' = Append(bootstrap_results, ec)
    /\ count_paths' = count_paths + 1
    /\ IF count_paths + 1 = both_paths
       THEN /\ start_completions' =
                IF ec # no_error
                THEN Append(Append(start_completions, ec), no_error)
                ELSE Append(start_completions, no_error)
            /\ run
       ELSE /\ start_completions' =
                IF ec # no_error
                THEN Append(start_completions, ec)
                ELSE start_completions
            /\ UNCHANGED <<run_calls, fetch_pending, fetch_issued,
                           full_returns, listen_state>>

\* protocol::handle_bootstrap
handle_bootstrap(ec) ==
    /\ bootstrap_results' = Append(bootstrap_results, ec)
    /\ IF ec # no_error
       THEN /\ start_completions' = Append(start_completions, ec)
            /\ UNCHANGED <<count_paths, run_calls, fetch_pending,
                           fetch_issued, full_returns, listen_state>>
       ELSE /\ count_paths' = count_paths + 1
            /\ IF count_paths + 1 = both_paths
               THEN /\ start_completions' = Append(start_completions, no_error)
                    /\ run
               ELSE UNCHANGED <<start_completions, run_calls, fetch_pending,
                                fetch_issued, full_returns, listen_state>>

\* handle_start_handshake_service completing start as soon as its own path
\* succeeds, without waiting for the counter to reach 2.
handle_start_handshake_service_eager(ec) ==
    /\ handshake_results' = Append(handshake_results, ec)
    /\ IF ec # no_error
       THEN /\ start_completions' = Append(start_completions, ec)
            /\ UNCHANGED <<count_paths, run_calls, fetch_pending,
                           fetch_issued, full_returns, listen_state>>
       ELSE /\ count_paths' = count_paths + 1
            /\ start_completions' = Append(start_completions, no_error)
            /\ run

\* protocol::handle_start_handshake_service
handle_start_handshake_service(ec) ==
    /\ handshake_results' = Append(handshake_results, ec)
    /\ IF ec # no_error
       THEN /\ start_completions' = Append(start_completions, ec)
            /\ UNCHANGED <<count_paths, run_calls, fetch_pending,
                           fetch_issued, full_returns, listen_state>>
       ELSE /\ count_paths' = count_paths + 1
            /\ IF count_paths + 1 = both_paths
               THEN /\ start_completions' = Append(start_completions, no_error)
                    /\ run
               ELSE UNCHANGED <<start_completions, run_calls, fetch_pending,
                                fetch_issued, full_returns, listen_state>>

\* The completion of handshake_->start, delivered through the strand.
handshake_started ==
    /\ hs_pc = "pending"
    /\ hs_pc' = "done"
    /\ \E ec \in Results : handle_start_handshake_service(ec)
    /\ UNCHANGED <<stopv, hosts_, boot_pc, bootstrap_results,
                   fetch_count_results, seedv, fanv, connections_,
                   accepted_channels_, connect_pending, try_posted, next_node,
                   next_accepted, stop_subscribed, stop_fired, stop_repeats,
                   last_fetched>>

\* protocol::start: a fresh counter, then bootstrap() (hosts_->load) and
\* handshake_->start are issued.
start ==
    /\ boot_pc = "idle"
    /\ hs_pc = "idle"
    /\ boot_pc' = "load"
    /\ hs_pc' = "pending"
    /\ count_paths' = 0
    /\ UNCHANGED <<stopv, hosts_, start_completions, run_calls,
                   bootstrap_results, handshake_results, fetch_count_results,
                   seedv, runv, fanv>>

\* protocol::load_hosts: the completion of hosts_->load.
load_hosts ==
    /\ boot_pc = "load"
    /\ \E ec \in Results :
        IF ec # no_error
        THEN /\ boot_pc' = "done"
             /\ handle_bootstrap(ec)
        ELSE /\ boot_pc' = "count"
             /\ UNCHANGED <<barrierv, bootstrap_results>>
    /\ UNCHANGED <<stopv, hosts_, hs_pc, handshake_results,
                   fetch_count_results, seedv, fanv, connections_,
                   accepted_channels_, connect_pending, try_posted, next_node,
                   next_accepted, stop_subscribed, stop_fired, stop_repeats,
                   last_fetched>>

\* protocol::seeds::start: one connect per DNS seed.
seeds_start ==
    /\ load_seeds_' = TRUE
    /\ ended_paths_' = 0
    /\ finished_' = FALSE
    /\ seed_paths' = [st \in {[conn |-> "pending", send |-> "none",
                                addr |-> "none"]} |-> NumSeeds]
    /\ UNCHANGED <<seeder_completions, last_ec>>

\* if_0_seed seeding whatever the reported count.
seed_needed_always(hosts_count) ==
    hosts_count >= 0

\* The test of if_0_seed: seed only when the host store reports no hosts.
seed_needed(hosts_count) ==
    hosts_count = 0

\* protocol::if_0_seed: the completion of hosts_->fetch_count, which reports
\* the number of records in the host store.
if_0_seed ==
    /\ boot_pc = "count"
    /\ \E ec \in Results :
        /\ fetch_count_results' = Append(fetch_count_results,
                [ec |-> ec, hosts_count |-> Cardinality(hosts_)])
        /\ IF ec # no_error
           THEN /\ boot_pc' = "done"
                /\ handle_bootstrap(ec)
                /\ UNCHANGED seedv
           ELSE IF seed_needed(Cardinality(hosts_))
                THEN /\ boot_pc' = "seeding"
                     /\ seeds_start
                     /\ UNCHANGED <<barrierv, bootstrap_results>>
                ELSE /\ boot_pc' = "done"
                     /\ handle_bootstrap(no_error)
                     /\ UNCHANGED seedv
    /\ UNCHANGED <<stopv, hosts_, hs_pc, handshake_results, fanv,
                   connections_, accepted_channels_, connect_pending,
                   try_posted, next_node, next_accepted, stop_subscribed,
                   stop_fired, stop_repeats, last_fetched>>

\* ------------------------------------------------------------------ seeder

\* The seeder's handle_complete_ is start's bootstrap handler.
seeds_complete(ec) ==
    /\ seeder_completions' = Append(seeder_completions, ec)
    /\ boot_pc' = "done"
    /\ handle_bootstrap(ec)

\* error_case without its finished_ test.
error_case_unguarded(ec) ==
    /\ last_ec' = ec
    /\ ended_paths_' = ended_paths_ + 1
    /\ IF ended_paths_ + 1 = NumSeeds
       THEN /\ finished_' = TRUE
            /\ seeds_complete(ec)
       ELSE UNCHANGED <<finished_, seeder_completions, boot_pc,
                        barrierv, bootstrap_results>>

\* protocol::seeds::error_case
error_case(ec) ==
    /\ last_ec' = ec
    /\ IF finished_
       THEN UNCHANGED <<ended_paths_, finished_, seeder_completions,
                        boot_pc, barrierv, bootstrap_results>>
       ELSE /\ ended_paths_' = ended_paths_ + 1
            /\ IF ended_paths_ + 1 = NumSeeds
               THEN /\ finished_' = TRUE
                    /\ seeds_complete(ec)
               ELSE UNCHANGED <<finished_, seeder_completions, boot_pc,
                                barrierv, bootstrap_results>>

\* One seed leaves callback state st for callback state to.
seed_moves(st, to) ==
    seed_paths' = (seed_paths (-) SetToBag({st})) (+) SetToBag({to})

\* protocol::seeds::request_addresses: the completion of the connect of a
\* seed in state st.
request_addresses(st) ==
    /\ BagIn(st, seed_paths)
    /\ st.conn = "pending"
    /\ \E ec \in Results :
        IF ec # no_error
        THEN /\ seed_moves(st, [st EXCEPT !.conn = "failed"])
             /\ error_case(ec)
        ELSE /\ seed_moves(st, [conn |-> "ok", send |-> "pending",
                                addr |-> "pending"])
             /\ UNCHANGED <<seedendv, boot_pc, barrierv, bootstrap_results>>
    /\ UNCHANGED <<stopv, hosts_, hs_pc, handshake_results,
                   fetch_count_results, load_seeds_, fanv, connections_,
                   accepted_channels_, connect_pending, try_posted, next_node,
                   next_accepted, stop_subscribed, stop_fired, stop_repeats,
                   last_fetched>>

\* protocol::seeds::handle_send_get_address: the completion of the
\* get_address send of a seed in state st.
handle_send_get_address(st) ==
    /\ BagIn(st, seed_paths)
    /\ st.send = "pending"
    /\ \E ec \in Results :
        IF ec # no_error
        THEN /\ seed_moves(st, [st EXCEPT !.send = "failed"])
             /\ error_case(ec)
        ELSE /\ seed_moves(st, [st EXCEPT !.send = "ok"])
             /\ UNCHANGED <<seedendv, boot_pc, barrierv, bootstrap_results>>
    /\ UNCHANGED <<stopv, hosts_, hs_pc, handshake_results,
                   fetch_count_results, load_seeds_, fanv, connections_,
                   accepted_channels_, connect_pending, try_posted, next_node,
                   next_accepted, stop_subscribed, stop_fired, stop_repeats,
                   last_fetched>>

\* protocol::seeds::save_addresses: the one delivery of the address
\* subscription of a seed in state st.  The packet's addresses go to
\* hosts_->store, whose completion (handle_store) only logs.
save_addresses(st) ==
    /\ BagIn(st, seed_paths)
    /\ st.addr = "pending"
    /\ \E ec \in Results :
        IF ec # no_error
        THEN /\ seed_moves(st, [st EXCEPT !.addr = "failed"])
             /\ error_case(ec)
             /\ UNCHANGED hosts_
        ELSE /\ seed_moves(st, [st EXCEPT !.addr = "ok"])
             /\ \E packet \in SUBSET Addrs : hosts_' = hosts_ \cup packet
             /\ IF ~finished_
                THEN /\ ended_paths_' = ended_paths_ + 1
                     /\ finished_' = TRUE
                     /\ seeds_complete(no_error)
                     /\ UNCHANGED last_ec
                ELSE UNCHANGED <<seedendv, boot_pc, barrierv,
                                 bootstrap_results>>
    /\ UNCHANGED <<stopv, hs_pc, handshake_results, fetch_count_results,
                   load_seeds_, fanv,
                   connections_, accepted_channels_, connect_pending,
                   try_posted, next_node, next_accepted, stop_subscribed,
                   stop_fired, stop_repeats, last_fetched>>

\* ------------------------------------------------------------ channel set-up

\* channel_subscribe_->relay(node): every handler now in the queue receives
\* the channel once and the queue is drained.
relay(node) ==
    /\ delivered' = [h \in Handlers |->
                        IF \E i \in 1..Len(subscribers) : subscribers[i] = h
                        THEN Append(delivered[h], node)
                        ELSE delivered[h]]
    /\ subscribers' = <<>>

\* setup_new_channel without its final relay.
setup_new_channel_norelay(node) ==
    /\ stop_subscribed' =
            [n \in DOMAIN stop_subscribed \cup {node} |->
                IF n = node
                THEN (IF n \in DOMAIN stop_subscribed
                      THEN stop_subscribed[n] + 1 ELSE 1)
                ELSE stop_subscribed[n]]
    /\ UNCHANGED <<subscribers, delivered>>

\* setup_new_channel without its subscribe_stop.
setup_new_channel_no_stop(node) ==
    /\ UNCHANGED stop_subscribed
    /\ relay(node)

\* protocol::setup_new_channel: subscribe_stop is registered, the address
\* subscription and the get_address send are issued (their completions only
\* log or store), and the channel is relayed to the subscribers.
setup_new_channel(node) ==
    /\ stop_subscribed' =
            [n \in DOMAIN stop_subscribed \cup {node} |->
                IF n = node
                THEN (IF n \in DOMAIN stop_subscribed
                      THEN stop_subscribed[n] + 1 ELSE 1)
                ELSE stop_subscribed[n]]
    /\ relay(node)

\* protocol::subscribe_channel
subscribe_channel ==
    /\ next_handler <= MaxSubs
    /\ subscribers' = Append(subscribers, next_handler)
    /\ next_handler' = next_handler + 1
    /\ UNCHANGED <<stopv, hosts_, startv, seedv, runv, delivered>>

\* ------------------------------------------------------ maintainer handlers

\* TRUE iff some entry of connections_ has the given (ip, port).
already_connected(address) ==
    \E i \in 1..Len(connections_) : connections_[i].address = address

\* A posted try_connect taken from the strand's queue.
try_connect_posted ==
    /\ try_posted > 0
    /\ try_posted' = try_posted - 1
    /\ try_connect(Len(connections_))
    /\ UNCHANGED <<stopv, hosts_, startv, seedv, fanv, connections_,
                   accepted_channels_, connect_pending, listen_state,
                   next_node, next_accepted, stop_subscribed, stop_fired,
                   stop_repeats, last_fetched>>

\* attempt_connect returning from its duplicate branch without reposting
\* try_connect.
attempt_connect_no_repost ==
    /\ fetch_pending > 0
    /\ fetch_pending' = fetch_pending - 1
    /\ \E ec \in Results :
        IF ec # no_error
        THEN /\ last_fetched' = no_address
             /\ UNCHANGED <<try_posted, connect_pending>>
        ELSE \E address \in hosts_ :
             /\ last_fetched' = address
             /\ IF already_connected(address)
                THEN UNCHANGED <<try_posted, connect_pending>>
                ELSE /\ connect_pending' =
                            [connect_pending EXCEPT ![address] = @ + 1]
                     /\ UNCHANGED try_posted
    /\ UNCHANGED <<stopv, hosts_, startv, seedv, fanv, connections_,
                   accepted_channels_, fetch_issued, full_returns,
                   listen_state, next_node, next_accepted, stop_subscribed,
                   stop_fired, stop_repeats>>

\* protocol::attempt_connect: the completion of one fetch_address, which
\* reports an error or a random record of the host store.
attempt_connect ==
    /\ fetch_pending > 0
    /\ fetch_pending' = fetch_pending - 1
    /\ \E ec \in Results :
        IF ec # no_error
        THEN /\ last_fetched' = no_address
             /\ UNCHANGED <<try_posted, connect_pending>>
        ELSE \E address \in hosts_ :
             /\ last_fetched' = address
             /\ IF already_connected(address)
                THEN /\ try_posted < MaxPosted
                     /\ try_posted' = try_posted + 1
                     /\ UNCHANGED connect_pending
                ELSE /\ connect_pending' =
                            [connect_pending EXCEPT ![address] = @ + 1]
                     /\ UNCHANGED try_posted
    /\ UNCHANGED <<stopv, hosts_, startv, seedv, fanv, connections_,
                   accepted_channels_, fetch_issued, full_returns,
                   listen_state, next_node, next_accepted, stop_subscribed,
                   stop_fired, stop_repeats>>

\* protocol::handle_connect: the completion of one connect.
handle_connect(address) ==
    /\ connect_pending[address] > 0
    /\ connect_pending' = [connect_pending EXCEPT ![address] = @ - 1]
    /\ \E ec \in Results :
        IF ec # no_error
        THEN /\ try_posted < MaxPosted
             /\ try_posted' = try_posted + 1
             /\ UNCHANGED <<connections_, next_node, stop_subscribed, fanv>>
        ELSE /\ connections_' = Append(connections_,
                    [address |-> address, node |-> next_node])
             /\ next_node' = next_node + 1
             /\ setup_new_channel(next_node)
             /\ UNCHANGED <<try_posted, next_handler>>
    /\ UNCHANGED <<stopv, hosts_, startv, seedv, accepted_channels_,
                   fetch_pending, fetch_issued, full_returns, listen_state,
                   next_accepted, stop_fired, stop_repeats, last_fetched>>

\* protocol::handle_listen: the completion of network_->listen.
handle_listen ==
    /\ listen_state = "listening"
    /\ \E ec \in Results :
        listen_state' = IF ec # no_error THEN "failed" ELSE "accepting"
    /\ UNCHANGED <<stopv, hosts_, startv, seedv, fanv, connections_,
                   accepted_channels_, fetch_pending, fetch_issued,
                   full_returns, connect_pending, try_posted, next_node,
                   next_accepted, stop_subscribed, stop_fired, stop_repeats,
                   last_fetched>>

\* handle_accept issuing the next accept after a successful one.
handle_accept_rearms ==
    /\ listen_state = "accepting"
    /\ \E ec \in Results :
        IF ec # no_error
        THEN /\ listen_state' = "closed"
             /\ UNCHANGED <<accepted_channels_, next_accepted,
                            stop_subscribed, fanv>>
        ELSE /\ listen_state' = "accepting"
             /\ accepted_channels_' =
                    Append(accepted_channels_, -next_accepted)
             /\ next_accepted' = next_accepted + 1
             /\ setup_new_channel(-next_accepted)
             /\ UNCHANGED next_handler
    /\ UNCHANGED <<stopv, hosts_, startv, seedv, connections_, fetch_pending,
                   fetch_issued, full_returns, connect_pending, try_posted,
                   next_node, stop_fired, stop_repeats, last_fetched>>

\* protocol::handle_accept: the completion of the one accept.
handle_accept ==
    /\ listen_state = "accepting"
    /\ listen_state' = "closed"
    /\ \E ec \in Results :
        IF ec # no_error
        THEN UNCHANGED <<accepted_channels_, next_accepted, stop_subscribed,
                         fanv>>
        ELSE /\ accepted_channels_' =
                    Append(accepted_channels_, -next_accepted)
             /\ next_accepted' = next_accepted + 1
             /\ setup_new_channel(-next_accepted)
             /\ UNCHANGED next_handler
    /\ UNCHANGED <<stopv, hosts_, startv, seedv, connections_, fetch_pending,
                   fetch_issued, full_returns, connect_pending, try_posted,
                   next_node, stop_fired, stop_repeats, last_fetched>>

\* The sequence s without its i-th element.
erase(s, i) ==
    [j \in 1..(Len(s) - 1) |-> IF j < i THEN s[j] ELSE s[j + 1]]

\* Index of the first entry of connections_ held for node, 0 when none.
find_connection(node) ==
    IF \E i \in 1..Len(connections_) : connections_[i].node = node
    THEN CHOOSE i \in 1..Len(connections_) :
            /\ connections_[i].node = node
            /\ \A j \in 1..(i - 1) : connections_[j].node # node
    ELSE 0

\* std::find over accepted_channels_: index of the first match, 0 when none.
find_accepted(node) ==
    IF \E i \in 1..Len(accepted_channels_) : accepted_channels_[i] = node
    THEN CHOOSE i \in 1..Len(accepted_channels_) :
            /\ accepted_channels_[i] = node
            /\ \A j \in 1..(i - 1) : accepted_channels_[j] # node
    ELSE 0

\* The stop subscription registered by setup_new_channel delivers for node:
\* its termination event, or a further notification for a channel that
\* already delivered one.
stop_notified(node) ==
    /\ node \in DOMAIN stop_subscribed
    /\ stop_subscribed[node] > 0
    /\ IF node \in stop_fired
       THEN /\ stop_repeats < MaxRepeats
            /\ stop_repeats' = stop_repeats + 1
            /\ UNCHANGED stop_fired
       ELSE /\ Cardinality(stop_fired) < MaxStops
            /\ stop_fired' = stop_fired \cup {node}
            /\ UNCHANGED stop_repeats

\* channel_stopped calling try_connect whether or not it found the channel.
channel_stopped_always_refills(node) ==
    /\ stop_notified(node)
    /\ IF find_connection(node) # 0
       THEN /\ connections_' = erase(connections_, find_connection(node))
            /\ try_connect(Len(connections_) - 1)
       ELSE /\ UNCHANGED connections_
            /\ try_connect(Len(connections_))
    /\ IF find_accepted(node) # 0
       THEN accepted_channels_' =
                erase(accepted_channels_, find_accepted(node))
       ELSE UNCHANGED accepted_channels_
    /\ UNCHANGED <<stopv, hosts_, startv, seedv, fanv, connect_pending,
                   try_posted, listen_state, next_node, next_accepted,
                   stop_subscribed, last_fetched>>

\* channel_stopped refilling for the list's size before the erase.
channel_stopped_stale_size(node) ==
    /\ stop_notified(node)
    /\ IF find_connection(node) # 0
       THEN /\ connections_' = erase(connections_, find_connection(node))
            /\ try_connect(Len(connections_))
       ELSE UNCHANGED <<connections_, fetch_pending, fetch_issued,
                        full_returns>>
    /\ IF find_accepted(node) # 0
       THEN accepted_channels_' =
                erase(accepted_channels_, find_accepted(node))
       ELSE UNCHANGED accepted_channels_
    /\ UNCHANGED <<stopv, hosts_, startv, seedv, fanv, connect_pending,
                   try_posted, listen_state, next_node, next_accepted,
                   stop_subscribed, last_fetched>>

\* protocol::channel_stopped: a notification of the stop subscription of
\* node.  try_connect is called directly, so it runs in the same step, after
\* the erase.
channel_stopped(node) ==
    /\ stop_notified(node)
    /\ IF find_connection(node) # 0
       THEN /\ connections_' = erase(connections_, find_connection(node))
            /\ try_connect(Len(connections_) - 1)
       ELSE UNCHANGED <<connections_, fetch_pending, fetch_issued,
                        full_returns>>
    /\ IF find_accepted(node) # 0
       THEN accepted_channels_' =
                erase(accepted_channels_, find_accepted(node))
       ELSE UNCHANGED accepted_channels_
    /\ UNCHANGED <<stopv, hosts_, startv, seedv, fanv, connect_pending,
                   try_posted, listen_state, next_node, next_accepted,
                   stop_subscribed, last_fetched>>

\* ----------------------------------------------------------------- shutdown

\* protocol::stop: one hosts_->save of hosts_filename_ is issued.
stop ==
    /\ stop_calls < MaxStopCalls
    /\ stop_calls' = stop_calls + 1
    /\ save_requests' = Append(save_requests, hosts_filename_)
    /\ save_pending' = save_pending + 1
    /\ UNCHANGED <<hosts_, startv, seedv, runv, fanv, save_results,
                   stop_completions>>

\* handle_save reporting success whatever the save's result.
handle_save_swallows(ec) ==
    stop_completions' = Append(stop_completions, no_error)

\* protocol::handle_save: stop's handle_complete gets the save's error, or
\* success.
handle_save(ec) ==
    IF ec # no_error
    THEN stop_completions' = Append(stop_completions, ec)
    ELSE stop_completions' = Append(stop_completions, no_error)

\* The completion of one hosts_->save, delivered through the strand.
save_completed ==
    /\ save_pending > 0
    /\ save_pending' = save_pending - 1
    /\ \E ec \in Results :
        /\ save_results' = Append(save_results, ec)
        /\ handle_save(ec)
    /\ UNCHANGED <<hosts_, startv, seedv, runv, fanv, stop_calls,
                   save_requests>>

\* ----------------------------------------------------------- specifications

\* Start-up and seeding.
NextBoot ==
    \/ start
    \/ load_hosts
    \/ if_0_seed
    \/ handshake_started
    \/ \E st \in SeedStates : request_addresses(st)
    \/ \E st \in SeedStates : handle_send_get_address(st)
    \/ \E st \in SeedStates : save_addresses(st)

SpecBoot == Init /\ [][NextBoot]_vars

\* Start-up and seeding where every callback the seeder has issued (connect,
\* send, address receipt) is eventually delivered.
SpecBootFair ==
    /\ SpecBoot
    /\ WF_vars(\E st \in SeedStates : request_addresses(st))
    /\ WF_vars(\E st \in SeedStates : handle_send_get_address(st))
    /\ WF_vars(\E st \in SeedStates : save_addresses(st))

\* A warm start (the hosts file holds records) followed by the running loop,
\* where every channel delivers its one termination event at most.
InitWarm == Init /\ hosts_ = {1, 2}

NextRun ==
    \/ start
    \/ load_hosts
    \/ if_0_seed
    \/ handshake_started
    \/ try_connect_posted
    \/ attempt_connect
    \/ \E a \in Addrs : handle_connect(a)
    \/ handle_listen
    \/ handle_accept
    \/ \E n \in DOMAIN stop_subscribed \ stop_fired : channel_stopped(n)

SpecRun == InitWarm /\ [][NextRun]_vars

\* The running loop over a one-address host store, with the application's
\* subscribe_channel calls.
InitFan == Init /\ hosts_ = {1}

NextFan ==
    \/ NextRun
    \/ subscribe_channel

SpecFan == InitFan /\ [][NextFan]_vars

\* The running loop over a one-address host store, with the application's
\* calls of stop, which may come at any time.
NextStop ==
    \/ NextRun
    \/ stop
    \/ save_completed

SpecStop == InitFan /\ [][NextStop]_vars

\* The running loop over a one-address host store, with channels that
\* notify their stop again after their termination event.
NextChurn ==
    \/ NextRun
    \/ \E n \in stop_fired : channel_stopped(n)

SpecChurn == InitFan /\ [][NextChurn]_vars

\* Every operation of the orchestrator.
Next ==
    \/ NextBoot
    \/ NextFan
    \/ \E n \in stop_fired : channel_stopped(n)
    \/ stop
    \/ save_completed

Spec == Init /\ [][Next]_vars

\* ------------------------------------------------------------------ claims

InSeq(x, seq) == \E i \in 1..Len(seq) : seq[i] = x

\* Both initialisation paths of start have delivered their outcome.
PathsDone == boot_pc = "done" /\ hs_pc = "done"

\* C3: for one call of start the completion handler is invoked exactly once,
\* whatever the two paths' outcomes and order: never twice, and once when
\* both paths have reported.
C3_StartCompletesExactlyOnce ==
    /\ Len(start_completions) <= 1
    /\ PathsDone => Len(start_completions) = 1

\* C4: once the seeder is started its completion handler is never invoked
\* more than once, and when every issued callback is delivered it is
\* eventually invoked once.
C4_SeederCompletesOnce ==
    /\ [](Len(seeder_completions) <= 1)
    /\ (load_seeds_ ~> Len(seeder_completions) = 1)

\* Two seeds delivered addresses and one seed failed to connect, and the
\* seeder has completed once.
C4_Witness ==
    /\ Len(seeder_completions) = 1
    /\ \E st \in BagToSet(seed_paths) :
            st.addr = "ok" /\ CopiesIn(st, seed_paths) >= 2
    /\ \E st \in BagToSet(seed_paths) : st.conn = "failed"

\* C5: first success wins: as soon as some seed has delivered an ADDR packet
\* without error, the seeder's completion has been invoked with success.
C5_FirstSuccessWins ==
    (\E st \in BagToSet(seed_paths) : st.addr = "ok")
        => seeder_completions = <<no_error>>

\* A seed has failed: its connect, its send or its receive reported an error
\* and it delivered no addresses.
SeedFailed(st) ==
    /\ st.addr # "ok"
    /\ \/ st.conn = "failed"
       \/ st.send = "failed"
       \/ st.addr = "failed"

AllSeedsFailed ==
    /\ load_seeds_
    /\ \A st \in BagToSet(seed_paths) : SeedFailed(st)

\* C6: when the last DNS seed fails, the seeder's completion fires with that
\* failure's error, start's completion then reports that error and run() is
\* not called.
C6_AllSeedsFailLastError ==
    [][(~AllSeedsFailed /\ AllSeedsFailed')
        => /\ seeder_completions = <<>>
           /\ seeder_completions' = <<last_ec'>>
           /\ last_ec' # no_error
           /\ start_completions' = Append(start_completions, last_ec')
           /\ run_calls' = 0]_vars

\* The bootstrap path ended without reporting success.
BootFailed == boot_pc = "done" /\ bootstrap_results # <<no_error>>

\* The handshake-service path ended without reporting success.
HandshakeFailed == hs_pc = "done" /\ handshake_results # <<no_error>>

\* C7: when either initialisation path fails, start's completion has fired
\* with that path's error and run() is never called: no fetch_address and no
\* listen is issued.
C7_FailedPathStopsStart ==
    /\ BootFailed =>
        /\ Len(bootstrap_results) = 1
        /\ bootstrap_results[1] \in ErrCodes
        /\ InSeq(bootstrap_results[1], start_completions)
    /\ HandshakeFailed =>
        /\ Len(handshake_results) = 1
        /\ handshake_results[1] \in ErrCodes
        /\ InSeq(handshake_results[1], start_completions)
    /\ (BootFailed \/ HandshakeFailed) =>
        /\ run_calls = 0
        /\ fetch_issued = 0
        /\ listen_state = "none"

\* The handshake service started, then every seed failed: start reported
\* the seeder's error and nothing was run.
C7_Witness ==
    /\ handshake_results = <<no_error>>
    /\ BootFailed
    /\ Len(seeder_completions) = 1
    /\ Len(start_completions) = 1

\* C8: when both paths succeed the completion handler is invoked with
\* success as the counter reaches 2 and run() is invoked exactly once; run()
\* is never invoked while the counter is below 2.
C8_BothPathsRunOnce ==
    /\ run_calls > 0 => count_paths = both_paths
    /\ count_paths = both_paths =>
        /\ run_calls = 1
        /\ start_completions = <<no_error>>
    /\ (bootstrap_results = <<no_error>> /\ handshake_results = <<no_error>>)
        => count_paths = both_paths

\* Both paths succeeded, the bootstrap path through the seeder.
C8_Witness ==
    /\ count_paths = both_paths
    /\ run_calls = 1
    /\ load_seeds_
    /\ fetch_issued = max_outbound

\* C9: after a successful load and a successful fetch_count the seeder is
\* started iff the reported host count is zero; with a non-zero count the
\* bootstrap path has completed with success and no seed connect is issued.
C9_SeedIffNoHosts ==
    /\ \A i \in 1..Len(fetch_count_results) :
        fetch_count_results[i].ec = no_error =>
            /\ load_seeds_ <=> fetch_count_results[i].hosts_count = 0
            /\ fetch_count_results[i].hosts_count > 0 =>
                /\ bootstrap_results = <<no_error>>
                /\ seed_paths = EmptyBag
    /\ ~load_seeds_ => seed_paths = EmptyBag

\* fetch_count reported a non-zero count and the bootstrap path is done.
C9_Witness ==
    /\ Len(fetch_count_results) = 1
    /\ fetch_count_results[1].ec = no_error
    /\ fetch_count_results[1].hosts_count > 0
    /\ boot_pc = "done"
    /\ ~load_seeds_

\* C1: the outbound connection list never holds more than max_outbound
\* entries.
C1_OutboundBounded ==
    Len(connections_) <= max_outbound

\* C2: no two entries of the outbound connection list have the same
\* (ip, port).
C2_NoDuplicateAddress ==
    \A i, j \in 1..Len(connections_) :
        i # j => connections_[i].address # connections_[j].address

\* The channels held in the two lists conns and acc.
ChannelsOf(conns, acc) ==
    {conns[i].node : i \in 1..Len(conns)} \cup {acc[i] : i \in 1..Len(acc)}

\* Handler h is in the subscriber queue.
Enqueued(h) == \E i \in 1..Len(subscribers) : subscribers[i] = h

\* C10: a step that sets up a new channel (outbound or inbound) delivers it
\* once to each handler then enqueued and to no other handler, and drains
\* the queue; no other step delivers anything; a handler never receives more
\* than one channel, and none before it has subscribed.
C10_RelayToSubscribers ==
    /\ [][/\ \A node \in ChannelsOf(connections_', accepted_channels_')
                    \ ChannelsOf(connections_, accepted_channels_) :
              /\ \A h \in Handlers :
                    delivered'[h] = IF Enqueued(h)
                                    THEN Append(delivered[h], node)
                                    ELSE delivered[h]
              /\ subscribers' = <<>>
          /\ ChannelsOf(connections_', accepted_channels_')
                \subseteq ChannelsOf(connections_, accepted_channels_)
                => delivered' = delivered]_vars
    /\ [](\A h \in Handlers :
            /\ Len(delivered[h]) <= 1
            /\ h >= next_handler => delivered[h] = <<>>)

\* One handler received an outbound channel and the other, enqueued after
\* that relay, received the inbound channel set up later.
C10_Witness ==
    /\ Len(delivered[1]) = 1
    /\ Len(delivered[2]) = 1
    /\ delivered[1][1] > 0
    /\ delivered[2][1] < 0

\* C11: every call of stop has issued exactly one save of hosts_filename_,
\* and stop's completion has been invoked once per completed save, never
\* before the save completes, with the save's result: success only for a save
\* that completed without error, the save's error otherwise.
C11_StopSavesOnceAndReports ==
    /\ Len(save_requests) = stop_calls
    /\ \A i \in 1..Len(save_requests) : save_requests[i] = hosts_filename_
    /\ save_pending + Len(save_results) = stop_calls
    /\ stop_completions = save_results

\* While running, stop was called, its save failed and the error was
\* reported to stop's completion handler.
C11_Witness ==
    /\ run_calls = 1
    /\ stop_calls = 1
    /\ save_pending = 0
    /\ stop_completions = <<1>>

\* stop's completion handler has fired for a running orchestrator.
Stopped == run_calls > 0 /\ Len(stop_completions) > 0

\* C12: once stop's completion handler has fired, no step issues a
\* fetch_address or a connect, and no step adds an entry to the outbound
\* list.
C12_StopQuiesces ==
    [][Stopped =>
        /\ fetch_issued' = fetch_issued
        /\ \A a \in Addrs : connect_pending'[a] <= connect_pending[a]
        /\ Len(connections_') <= Len(connections_)]_vars

\* C13: a try_connect that runs while the outbound list holds exactly
\* max_outbound entries (a posted try_connect, or the one channel_stopped
\* calls after its erase) issues no fetch_address, and the posted one leaves
\* the outbound list, the inbound list and the subscriber queue as they were.
C13_TryConnectAtLimitNoOp ==
    [][/\ (try_posted' < try_posted /\ Len(connections_) = max_outbound)
            => /\ fetch_issued' = fetch_issued
               /\ fetch_pending' = fetch_pending
               /\ connections_' = connections_
               /\ accepted_channels_' = accepted_channels_
               /\ subscribers' = subscribers
       /\ (Len(connections_') < Len(connections_)
                /\ Len(connections_') = max_outbound)
            => /\ fetch_issued' = fetch_issued
               /\ fetch_pending' = fetch_pending]_vars

\* No channel has stopped, the outbound list holds max_outbound entries and
\* a posted try_connect has returned at its size test.
C13_Witness ==
    /\ stop_fired = {}
    /\ Len(connections_) = max_outbound
    /\ full_returns > 0
    /\ try_posted = 0

\* C14: a stop notification for a channel that is in neither list (one that
\* already delivered its termination event, which removed it) leaves the
\* outbound and the inbound list unchanged and issues no fetch_address, so a
\* second notification for the same channel has no effect; and a channel
\* whose notification was handled is in neither list.
C14_UnknownChannelStopNoOp ==
    /\ [][stop_repeats' # stop_repeats
            => /\ connections_' = connections_
               /\ accepted_channels_' = accepted_channels_
               /\ fetch_issued' = fetch_issued
               /\ fetch_pending' = fetch_pending
               /\ try_posted' = try_posted]_vars
    /\ [](stop_fired \cap ChannelsOf(connections_, accepted_channels_) = {})

\* An outbound channel stopped and notified a second time while the
\* outbound list had free slots.
C14_Witness ==
    /\ stop_repeats = 1
    /\ \E n \in stop_fired : n > 0
    /\ Len(connections_) < max_outbound

\* The outbound list conns holds an entry for channel n.
HeldOutbound(conns, n) == \E i \in 1..Len(conns) : conns[i].node = n

\* C15: when the termination event of a channel held in the outbound list is
\* handled, that step removes exactly that entry, keeping the others in
\* order, and issues one fetch_address per slot then free: max_outbound
\* minus the new length (none if the list is still full); from 8 entries,
\* exactly one.
C15_ChurnRefillsOneSlot ==
    [][\A n \in stop_fired' \ stop_fired :
        HeldOutbound(connections_, n) =>
            LET others(c) == c.node # n
                free == IF Len(connections_') < max_outbound
                        THEN max_outbound - Len(connections_') ELSE 0
            IN  /\ connections_' = SelectSeq(connections_, others)
                /\ Len(connections_') = Len(connections_) - 1
                /\ fetch_issued' = fetch_issued + free
                /\ fetch_pending' = fetch_pending + free
                /\ Len(connections_) = max_outbound
                        => fetch_issued' = fetch_issued + 1]_vars

\* One of eight outbound channels stopped: seven entries remain and a ninth
\* fetch_address was issued.
C15_Witness ==
    /\ \E n \in stop_fired : n > 0
    /\ Len(connections_) = max_outbound - 1
    /\ next_node = max_outbound + 1
    /\ fetch_issued = max_outbound + 1
    /\ fetch_pending = 1

\* C16: when a fetch_address result carries an address that an entry of the
\* outbound list already has, the step that handles it issues no connect,
\* leaves the outbound list unchanged and posts one try_connect.
C16_DuplicateDrawReposts ==
    [][(/\ fetch_pending' < fetch_pending
        /\ last_fetched' \in Addrs
        /\ \E i \in 1..Len(connections_) :
                connections_[i].address = last_fetched')
            => /\ connect_pending' = connect_pending
               /\ connections_' = connections_
               /\ try_posted' = try_posted + 1]_vars

\* One outbound connection is held, the latest fetch_address result carried
\* its address, no connect is in flight and a try_connect is posted.
C16_Witness ==
    /\ Len(connections_) = 1
    /\ connections_[1].address = last_fetched
    /\ \A a \in Addrs : connect_pending[a] = 0
    /\ try_posted = 1
    /\ fetch_issued = max_outbound
    /\ fetch_pending = max_outbound - 2

\* Number of connects awaiting their result, over the addresses 1..a.
RECURSIVE ConnectsInFlight(_)
ConnectsInFlight(a) ==
    IF a = 0 THEN 0 ELSE connect_pending[a] + ConnectsInFlight(a - 1)

\* C17: while running, whenever an outbound slot is free something that can
\* fill it is outstanding: a posted try_connect, a fetch_address awaiting
\* its result or a connect awaiting its result.
C17_FreeSlotHasRefillPending ==
    (run_calls > 0 /\ Len(connections_) < max_outbound)
        => try_posted + fetch_pending + ConnectsInFlight(NumAddrs) > 0

\* C20: the outbound attempts in flight (fetch_address calls and connects
\* awaiting their result) and the outbound entries together never exceed
\* max_outbound.
C20_NoOverSubscription ==
    fetch_pending + ConnectsInFlight(NumAddrs) + Len(connections_)
        <= max_outbound

\* C18: the listener only moves from listening to accepting (a successful
\* listen issues the one accept) or to failed (no accept), and from accepting
\* to closed (the accept's result, successful or not, issues no other); an
\* inbound channel is appended only by that one accept, so at most one is
\* ever appended.
C18_AcceptSingleShot ==
    /\ [][/\ listen_state' # listen_state =>
                <<listen_state, listen_state'>> \in
                    {<<"none", "listening">>, <<"listening", "accepting">>,
                     <<"listening", "failed">>, <<"accepting", "closed">>}
          /\ Len(accepted_channels_') > Len(accepted_channels_) =>
                /\ listen_state = "accepting"
                /\ listen_state' = "closed"]_vars
    /\ [](next_accepted <= 2 /\ Len(accepted_channels_) <= 1)

\* The one accept delivered a channel and the listener is closed.
C18_Witness ==
    /\ listen_state = "closed"
    /\ accepted_channels_ = <<-1>>
    /\ next_accepted = 2

\* C19: every channel in the outbound or the inbound list has exactly one
\* stop handler registered, and a channel whose stop handler has fired is in
\* neither list, in this and every later state.
C19_StopHandlerOncePerChannel ==
    /\ \A n \in ChannelsOf(connections_, accepted_channels_) :
            /\ n \in DOMAIN stop_subscribed
            /\ stop_subscribed[n] = 1
            /\ n \notin stop_fired
    /\ \A i, j \in 1..Len(connections_) :
            i # j => connections_[i].node # connections_[j].node

\* An outbound channel has stopped and later connects have added further
\* channels to the outbound list.
C19_Witness ==
    /\ \E n \in stop_fired : n > 0 /\ n < next_node - 1
    /\ Len(connections_) = max_outbound
    /\ HeldOutbound(connections_, next_node - 1)

====
